---- MODULE Spec2Model ----
(***************************************************************************)
(* steps-pg (src/index.js, lines 1-232): persisted run tracking of named   *)
(* steps in a PostgreSQL table.  make() builds one pool, one activeRuns    *)
(* map and the getRun entry point; every run object returned by getRun     *)
(* closes over its own `row` and `rootHash`.  Lines 234-402 of the file    *)
(* hold an earlier revision of the same module (no registry, no pooled     *)
(* connection per transition); the model follows lines 1-232.              *)
(*                                                                         *)
(* Every `await` of the source is a separate step of the model, so calls   *)
(* of different run objects interleave exactly at the suspension points.   *)
(***************************************************************************)
EXTENDS Integers, FiniteSets, Sequences, TLC

(***************************************************************************)
(* Bounds of the model.                                                    *)
(***************************************************************************)
MaxHandles == 2     \* getRun calls made by the process
MaxOps == 3         \* markRunning / markDone / markFailed calls in total

Handles == 1..MaxHandles
Names == {"a", "b"}
Hashes == {"h"}
AllHashes == {"h", "g"}

(***************************************************************************)
(* JavaScript values, tagged by their type.                                *)
(***************************************************************************)
Undefined == [t |-> "undefined"]
Null == [t |-> "null"]
False == [t |-> "boolean", v |-> FALSE]
Num(n) == [t |-> "number", v |-> n]
Str(s) == [t |-> "string", v |-> s]
Obj(members) == [t |-> "object", v |-> members]
Error(message) == [t |-> "error", message |-> message, stack |-> "stack"]

\* ToBoolean, as applied by `x ? a : b`, `!x` and `a && b`
Truthy(x) ==
    CASE x.t = "undefined" -> FALSE
      [] x.t = "null" -> FALSE
      [] x.t = "boolean" -> x.v
      [] x.t = "number" -> x.v # 0
      [] x.t = "string" -> IF "v" \in DOMAIN x THEN x.v # "" ELSE TRUE
      [] OTHER -> TRUE

\* JSON.stringify(x): undefined for undefined, otherwise the JSON text of x.
\* A JSON text is a string value that carries the value it encodes; it is a
\* different value from x, and stringifying a JSON text encodes it again.
JSONstringify(x) ==
    IF x.t = "undefined" THEN Undefined ELSE [t |-> "string", json |-> x]

\* the object that JSON.stringify(error, Object.getOwnPropertyNames(error)) encodes
OwnProperties(error) ==
    IF error.t = "error"
    THEN Obj(<<<<"stack", Str(error.stack)>>, <<"message", Str(error.message)>>>>)
    ELSE error

TypeError == [t |-> "rejected", error |-> "TypeError"]
StoreError == [t |-> "rejected", error |-> "StoreError"]
UniqueViolation == [t |-> "rejected", error |-> "unique_violation"]
IsRejected(result) == result.t = "rejected"

\* serializeError: Object.getOwnPropertyNames throws on undefined and null
serializeError(error) ==
    IF error.t \in {"undefined", "null"}
    THEN TypeError
    ELSE JSONstringify(OwnProperties(error))

STATUS_NEW == "N"
STATUS_RUNNING == "R"
STATUS_DONE == "D"
STATUS_FAILED == "F"

PoolMax == 5
\* process.env.HOSTNAME || null and now(): one host, one instant
hostname == Str("host")
now == Str("ts")

(***************************************************************************)
(* Arguments the callers pass.                                             *)
(***************************************************************************)
RootHashes == {Undefined, Null, Str("root")}
Outputs == {Undefined, Num(0), Obj(<<<<"pages", Num(3)>>>>)}
Errors == {Undefined, Error("timeout")}

VARIABLES
    store,        \* the rows of the steps table
    nextId,       \* the sequence behind the generated id column
    activeRuns,   \* the activeRuns Map: hash -> run object (0: no entry)
    checkedOut,   \* pool connections checked out and not released
    pc,           \* per run object: position of the call in flight
    op,           \* per run object: the call in flight, or the last one made
    args,         \* per run object: name, hash, rootHash of its getRun call
    row,          \* per run object: the `row` its closures hold
    arg,          \* per run object: argument of the call in flight
    result,       \* per run object: what the last call resolved to
    missed,       \* per run object: getStepRow found no row
    prior,        \* per run object: getRun calls for the same key resolved before it began
    ops,          \* number of transition calls made
    got,          \* per run object: what its last getVars() call returned or threw
    exiting,      \* 'beforeExit' was emitted: finishActiveRuns has been called
    finish,       \* the run objects whose markFailed finishActiveRuns awaits
    doneWith      \* per row id: the output given to markDone, while that is the
                  \* last transition executed on the row

vars == <<store, nextId, activeRuns, checkedOut, pc, op, args, row, arg, result,
          missed, prior, ops, got, exiting, finish, doneWith>>

NoRun == 0
Pending == [t |-> "pending"]
RunObject == [t |-> "run"]
NoArgs == [name |-> "", hash |-> "", rootHash |-> Undefined]
NotDone == [t |-> "none"]

\* the state after make(), on a table that holds `rows` (ids 1..n)
InitOn(rows) ==
    /\ store = rows
    /\ nextId = Cardinality(rows) + 1
    /\ activeRuns = [hash \in AllHashes |-> NoRun]
    /\ checkedOut = 0
    /\ pc = [h \in Handles |-> "free"]
    /\ op = [h \in Handles |-> "none"]
    /\ args = [h \in Handles |-> NoArgs]
    /\ row = [h \in Handles |-> Undefined]
    /\ arg = [h \in Handles |-> Undefined]
    /\ result = [h \in Handles |-> Pending]
    /\ missed = [h \in Handles |-> FALSE]
    /\ prior = [h \in Handles |-> {}]
    /\ ops = 0
    /\ got = [h \in Handles |-> Undefined]
    /\ exiting = FALSE
    /\ finish = {}
    /\ doneWith = [id \in 1..Cardinality(rows) |-> NotDone]

Init == InitOn({})

(***************************************************************************)
(* The steps table.                                                        *)
(***************************************************************************)
\* the uniqueness constraint on (name, hash) of the table definition
UniqueNameHash(rows, name, hash) ==
    ~ \E r \in rows : r.name = name /\ r.hash = hash

\* SELECT * FROM steps WHERE name = $1 AND hash = $2, then result.rows[0].
\* The vars, output and error columns are text: the row object holds them as
\* the strings that were stored (getVars, line 212, decodes a string).
getStepRow(rows, name, hash) ==
    LET found == {r \in rows : r.name = name /\ r.hash = hash}
    IN  IF found = {} THEN Undefined ELSE CHOOSE r \in found : TRUE

\* the row object getOrCreateStepRow builds before the INSERT, with the id
\* the INSERT returns; the columns it does not name are undefined properties
CreatedRow(id, name, hash, rootHash) ==
    [id |-> id, name |-> name, hash |-> hash, rootHash |-> rootHash,
     status |-> STATUS_NEW, vars |-> Undefined, output |-> Undefined,
     error |-> Undefined, hostname |-> Undefined, started_at |-> Undefined]

\* a parameter as the store receives it: undefined is sent as NULL
Param(x) == IF x.t = "undefined" THEN Null ELSE x

\* INSERT INTO steps (name, hash, rootHash, status) VALUES ($1, $2, $3, $4)
InsertedRow(id, name, hash, rootHash) ==
    [id |-> id, name |-> name, hash |-> hash, rootHash |-> Param(rootHash),
     status |-> STATUS_NEW, vars |-> Null, output |-> Null,
     error |-> Null, hostname |-> Null, started_at |-> Null]

\* UPDATE steps SET ... WHERE id = $1: the rows after it, and its rowCount
UpdateWhereId(rows, id, set) ==
    {IF r.id = id THEN set[r] ELSE r : r \in rows}

RowCount(rows, id) == Cardinality({r \in rows : r.id = id})

(***************************************************************************)
(* getRun(name, hash, rootHash)                                            *)
(***************************************************************************)
\* line 89: `rootHash ? getOrCreateStepRow(...) : getStepRow(...)`
CreatesAlways(rootHash) == TRUE
Creates(rootHash) == Truthy(rootHash)

GetRunResolved(g) ==
    /\ pc[g] \notin {"free", "failed"}
    /\ op[g] = "getRun" => pc[g] = "ready"

\* the call: getRun starts and awaits pool.connect()
GetRun(h, name, hash, rootHash) ==
    /\ ~exiting
    /\ pc[h] = "free"
    /\ \A g \in Handles : g < h => pc[g] # "free"
    /\ pc' = [pc EXCEPT ![h] = "connect"]
    /\ op' = [op EXCEPT ![h] = "getRun"]
    /\ args' = [args EXCEPT ![h] = [name |-> name, hash |-> hash, rootHash |-> rootHash]]
    /\ prior' = [prior EXCEPT ![h] =
                    {g \in Handles : /\ GetRunResolved(g)
                                     /\ args[g].name = name
                                     /\ args[g].hash = hash}]
    /\ UNCHANGED <<store, nextId, activeRuns, checkedOut, row, arg, result, missed, ops, got, exiting, finish, doneWith>>

\* pool.connect() resolves (lines 88, 124, 150, 181)
Connect(h) ==
    /\ pc[h] = "connect"
    /\ checkedOut < PoolMax
    /\ checkedOut' = checkedOut + 1
    /\ pc' = [pc EXCEPT ![h] = IF op[h] = "getRun" THEN "select" ELSE "query"]
    /\ UNCHANGED <<store, nextId, activeRuns, op, args, row, arg, result, missed, prior, ops, got, exiting, finish, doneWith>>

\* getStepRow's query resolves (line 52, reached from line 58 or line 89)
GetRunSelect(h) ==
    /\ pc[h] = "select"
    /\ LET found == getStepRow(store, args[h].name, args[h].hash)
       IN  /\ row' = [row EXCEPT ![h] = found]
           /\ missed' = [missed EXCEPT ![h] = (found = Undefined)]
           /\ pc' = [pc EXCEPT ![h] =
                        IF Creates(args[h].rootHash) /\ found = Undefined
                        THEN "insert" ELSE "release"]
    /\ UNCHANGED <<store, nextId, activeRuns, checkedOut, op, args, arg, result, prior, ops, got, exiting, finish, doneWith>>

\* the INSERT of getOrCreateStepRow resolves or rejects (lines 60-74); a
\* rejection leaves getRun before its client.release()
GetRunInsert(h) ==
    /\ pc[h] = "insert"
    /\ IF UniqueNameHash(store, args[h].name, args[h].hash)
       THEN /\ store' = store \cup
                   {InsertedRow(nextId, args[h].name, args[h].hash, args[h].rootHash)}
            /\ nextId' = nextId + 1
            /\ row' = [row EXCEPT ![h] =
                          CreatedRow(nextId, args[h].name, args[h].hash, args[h].rootHash)]
            /\ pc' = [pc EXCEPT ![h] = "release"]
            /\ doneWith' = Append(doneWith, NotDone)
            /\ UNCHANGED result
       ELSE /\ pc' = [pc EXCEPT ![h] = "failed"]
            /\ result' = [result EXCEPT ![h] = UniqueViolation]
            /\ UNCHANGED <<store, nextId, row, doneWith>>
    /\ UNCHANGED <<activeRuns, checkedOut, op, args, arg, missed, prior, ops, got, exiting, finish>>

\* client.release() and the return of the run object (lines 90-222)
GetRunRelease(h) ==
    /\ pc[h] = "release"
    /\ op[h] = "getRun"
    /\ checkedOut' = checkedOut - 1
    /\ pc' = [pc EXCEPT ![h] = "ready"]
    /\ result' = [result EXCEPT ![h] = RunObject]
    /\ UNCHANGED <<store, nextId, activeRuns, op, args, row, arg, missed, prior, ops, got, exiting, finish, doneWith>>

(***************************************************************************)
(* The run object: isDone, isRunning, isFailed, getOutput                  *)
(***************************************************************************)
Bool(b) == [t |-> "boolean", v |-> b]

\* `row.status === STATUS_X` throws a TypeError when row is undefined
isDone(h) ==
    IF row[h] = Undefined THEN TypeError ELSE Bool(row[h].status = STATUS_DONE)

isRunning(h) ==
    IF row[h] = Undefined THEN TypeError ELSE Bool(row[h].status = STATUS_RUNNING)

isFailed(h) ==
    IF row[h] = Undefined THEN TypeError ELSE Bool(row[h].status = STATUS_FAILED)

getOutput(h) ==
    IF row[h] = Undefined THEN TypeError ELSE row[h].output

(***************************************************************************)
(* The run object: markRunning, markDone, markFailed                       *)
(***************************************************************************)
Transitions == {"markRunning", "markDone", "markFailed"}

\* `row?.id && rootHash !== undefined` (lines 122, 148, 179)
WritableIgnoresRootHash(r, rootHash) == r # Undefined /\ r.id # 0
Writable(r, rootHash) ==
    /\ r # Undefined /\ r.id # 0
    /\ rootHash # Undefined

\* `row?.vars ? JSON.stringify(row.vars) : null`
VarsParamInverted(r) == IF Truthy(r.vars) THEN Null ELSE JSONstringify(r.vars)
VarsParam(r) == IF Truthy(r.vars) THEN JSONstringify(r.vars) ELSE Null

\* `output ? JSON.stringify(output) : null`
OutputParam(output) == IF Truthy(output) THEN JSONstringify(output) ELSE Null

\* SET status = $2, vars = $3, hostname = $4, started_at = $5
MarkRunningSet(r, varsParam) ==
    [r EXCEPT !.status = STATUS_RUNNING, !.vars = Param(varsParam),
              !.hostname = hostname, !.started_at = now]

\* SET status = $2, output = $3, vars = $4, error = null
MarkDoneSetKeepsError(r, outputParam, varsParam) ==
    [r EXCEPT !.status = STATUS_DONE, !.output = Param(outputParam),
              !.vars = Param(varsParam)]
MarkDoneSetStatusNew(r, outputParam, varsParam) ==
    [r EXCEPT !.status = STATUS_NEW, !.output = Param(outputParam),
              !.vars = Param(varsParam), !.error = Null]
MarkDoneSet(r, outputParam, varsParam) ==
    [r EXCEPT !.status = STATUS_DONE, !.output = Param(outputParam),
              !.vars = Param(varsParam), !.error = Null]

\* SET status = $2, error = $3, vars = $4, output = null
MarkFailedSetKeepsOutput(r, errorParam, varsParam) ==
    [r EXCEPT !.status = STATUS_FAILED, !.error = Param(errorParam),
              !.vars = Param(varsParam)]
MarkFailedSet(r, errorParam, varsParam) ==
    [r EXCEPT !.status = STATUS_FAILED, !.error = Param(errorParam),
              !.vars = Param(varsParam), !.output = Null]

\* the synchronous head of a transition: the guard, the registry update and
\* the start of `await pool.connect()`; `return false` when the guard fails
Begin(h, name, argument, registered) ==
    /\ ~exiting
    /\ ops < MaxOps
    /\ ops' = ops + 1
    /\ op' = [op EXCEPT ![h] = name]
    /\ IF Writable(row[h], args[h].rootHash)
       THEN /\ activeRuns' = [activeRuns EXCEPT ![args[h].hash] = registered]
            /\ pc' = [pc EXCEPT ![h] = "connect"]
            /\ arg' = [arg EXCEPT ![h] = argument]
            /\ result' = [result EXCEPT ![h] = Pending]
       ELSE /\ result' = [result EXCEPT ![h] = False]
            /\ UNCHANGED <<activeRuns, pc, arg>>
    /\ UNCHANGED <<store, nextId, checkedOut, args, row, missed, prior, got, exiting, finish, doneWith>>

\* lines 121-124: addActiveRun(hash, run)
MarkRunning(h) ==
    /\ pc[h] = "ready"
    /\ Begin(h, "markRunning", Undefined, h)

\* lines 147-150: removeActiveRun(hash)
MarkDone(h, output) ==
    /\ pc[h] = "ready"
    /\ Begin(h, "markDone", output, NoRun)

\* lines 178-181: removeActiveRun(hash)
MarkFailed(h, error) ==
    /\ pc[h] = "ready"
    /\ Begin(h, "markFailed", error, NoRun)

\* the UPDATE resolves: `return result.rowCount` is pending behind `finally`
Updated(h, set) ==
    /\ store' = UpdateWhereId(store, row[h].id, set)
    /\ doneWith' = [doneWith EXCEPT ![row[h].id] =
                        IF op[h] = "markDone" THEN arg[h] ELSE NotDone]
    /\ result' = [result EXCEPT ![h] = Num(RowCount(store, row[h].id))]
    /\ pc' = [pc EXCEPT ![h] = "release"]
    /\ arg' = [arg EXCEPT ![h] = Undefined]
    /\ UNCHANGED <<nextId, activeRuns, checkedOut, op, args, row, missed, prior, ops, got, exiting, finish>>

\* the statement is not executed: the call rejects after `finally`
Thrown(h, error) ==
    /\ result' = [result EXCEPT ![h] = error]
    /\ pc' = [pc EXCEPT ![h] = "release"]
    /\ arg' = [arg EXCEPT ![h] = Undefined]
    /\ UNCHANGED <<store, nextId, activeRuns, checkedOut, op, args, row, missed, prior, ops, got, exiting, finish, doneWith>>

\* lines 126-131
MarkRunningQuery(h) ==
    /\ pc[h] = "query" /\ op[h] = "markRunning"
    /\ LET set == [r \in store |-> MarkRunningSet(r, VarsParam(row[h]))]
       IN  Updated(h, set)

\* lines 152-162
MarkDoneQuery(h) ==
    /\ pc[h] = "query" /\ op[h] = "markDone"
    /\ LET set == [r \in store |-> MarkDoneSet(r, OutputParam(arg[h]), VarsParam(row[h]))]
       IN  Updated(h, set)

\* lines 183-188: serializeError(error) is evaluated before the query is sent
MarkFailedQuery(h) ==
    /\ pc[h] = "query" /\ op[h] = "markFailed"
    /\ IF IsRejected(serializeError(arg[h]))
       THEN Thrown(h, serializeError(arg[h]))
       ELSE LET set == [r \in store |->
                           MarkFailedSet(r, serializeError(arg[h]), VarsParam(row[h]))]
            IN  Updated(h, set)

\* client.query rejects with a store error (lines 126, 152, 183)
QueryFails(h) ==
    /\ pc[h] = "query" /\ op[h] \in Transitions
    /\ Thrown(h, StoreError)

\* `finally { await client.release() }`, then the return or the rejection
Release(h) ==
    /\ pc[h] = "release"
    /\ op[h] \in Transitions
    /\ checkedOut' = checkedOut - 1
    /\ pc' = [pc EXCEPT ![h] = "ready"]
    /\ UNCHANGED <<store, nextId, activeRuns, op, args, row, arg, result, missed, prior, ops, got, exiting, finish, doneWith>>

(***************************************************************************)
(* The run object: getVars (lines 211-219), and the caller's writes to     *)
(* the bag it returns                                                      *)
(***************************************************************************)
SyntaxError == [t |-> "rejected", error |-> "SyntaxError"]
EmptyBag == Obj(<<>>)

\* JSON.parse(text): the value a JSON text encodes; a SyntaxError otherwise
JSONparse(text) == IF "json" \in DOMAIN text THEN text.json ELSE SyntaxError

\* what lines 212-216 assign to row.vars, given the row.vars they find
DecodedVars(x) == IF x.t = "string" THEN JSONparse(x) ELSE EmptyBag

\* bag[key] = value
Put(bag, key, value) ==
    Obj(IF \E i \in DOMAIN bag.v : bag.v[i][1] = key
        THEN [i \in DOMAIN bag.v |->
                 IF bag.v[i][1] = key THEN <<key, value>> ELSE bag.v[i]]
        ELSE Append(bag.v, <<key, value>>))

\* run.getVars(): `row.vars = {}` throws when row is undefined, JSON.parse
\* throws on a text that is no JSON; the bag returned is row.vars itself
GetVars(h) ==
    /\ ~exiting
    /\ pc[h] = "ready"
    /\ IF row[h] = Undefined
       THEN got' = [got EXCEPT ![h] = TypeError] /\ UNCHANGED row
       ELSE IF IsRejected(DecodedVars(row[h].vars))
       THEN got' = [got EXCEPT ![h] = DecodedVars(row[h].vars)] /\ UNCHANGED row
       ELSE /\ row' = [row EXCEPT ![h].vars = DecodedVars(row[h].vars)]
            /\ got' = [got EXCEPT ![h] = DecodedVars(row[h].vars)]
    /\ UNCHANGED <<store, nextId, activeRuns, checkedOut, pc, op, args, arg, result,
                   missed, prior, ops, exiting, finish, doneWith>>

\* the caller sets a key of the bag its last getVars() returned
SetVar(h, key, value) ==
    /\ ~exiting
    /\ pc[h] = "ready"
    /\ got[h].t = "object"
    /\ row' = [row EXCEPT ![h].vars = Put(row[h].vars, key, value)]
    /\ got' = [got EXCEPT ![h] = Put(row[h].vars, key, value)]
    /\ row'[h] # row[h]
    /\ UNCHANGED <<store, nextId, activeRuns, checkedOut, pc, op, args, arg, result,
                   missed, prior, ops, exiting, finish, doneWith>>

(***************************************************************************)
(* finishActiveRuns, the 'beforeExit' listener (lines 39-49)               *)
(***************************************************************************)
\* the run objects `activeRuns.entries()` yields
EntriesFirstOnly(registry) ==
    LET runs == {registry[hash] : hash \in DOMAIN registry} \ {NoRun}
    IN  {h \in runs : \A g \in runs : h <= g}
Entries(registry) == {registry[hash] : hash \in DOMAIN registry} \ {NoRun}

\* 'beforeExit' is emitted when the event loop has nothing left to do
EventLoopEmpty ==
    \A h \in Handles : pc[h] \in {"free", "ready", "failed"}

\* the loop calls run.markFailed(new Error('Exit')) on every entry: each call
\* runs up to its `await pool.connect()`; Promise.all then awaits them all,
\* and no other code of the process is left to run
FinishActiveRuns ==
    /\ ~exiting
    /\ EventLoopEmpty
    /\ exiting' = TRUE
    /\ LET runs == Entries(activeRuns)
           begun == {h \in runs : Writable(row[h], args[h].rootHash)}
       IN  /\ finish' = runs
           /\ activeRuns' = [hash \in DOMAIN activeRuns |->
                                IF \E h \in begun : args[h].hash = hash
                                THEN NoRun ELSE activeRuns[hash]]
           /\ pc' = [h \in Handles |-> IF h \in begun THEN "connect" ELSE pc[h]]
           /\ op' = [h \in Handles |-> IF h \in runs THEN "markFailed" ELSE op[h]]
           /\ arg' = [h \in Handles |-> IF h \in begun THEN Error("Exit") ELSE arg[h]]
           /\ result' = [h \in Handles |->
                            IF h \in begun THEN Pending
                            ELSE IF h \in runs THEN False ELSE result[h]]
    /\ UNCHANGED <<store, nextId, checkedOut, args, row, missed, prior, ops, got, doneWith>>

Next ==
    \/ \E h \in Handles, name \in Names, hash \in Hashes, rootHash \in RootHashes :
          GetRun(h, name, hash, rootHash)
    \/ \E h \in Handles : Connect(h)
    \/ \E h \in Handles : GetRunSelect(h)
    \/ \E h \in Handles : GetRunInsert(h)
    \/ \E h \in Handles : GetRunRelease(h)
    \/ \E h \in Handles : MarkRunning(h)
    \/ \E h \in Handles, output \in Outputs : MarkDone(h, output)
    \/ \E h \in Handles, error \in Errors : MarkFailed(h, error)
    \/ \E h \in Handles : MarkRunningQuery(h)
    \/ \E h \in Handles : MarkDoneQuery(h)
    \/ \E h \in Handles : MarkFailedQuery(h)
    \/ \E h \in Handles : QueryFails(h)
    \/ \E h \in Handles : Release(h)

Spec == Init /\ [][Next]_vars

\* the process up to and through its exit: steps of two hashes, and the hook
NextExit ==
    \/ \E h \in Handles, name \in Names, hash \in AllHashes, rootHash \in RootHashes :
          GetRun(h, name, hash, rootHash)
    \/ \E h \in Handles : Connect(h)
    \/ \E h \in Handles : GetRunSelect(h)
    \/ \E h \in Handles : GetRunInsert(h)
    \/ \E h \in Handles : GetRunRelease(h)
    \/ \E h \in Handles : MarkRunning(h)
    \/ \E h \in Handles, output \in Outputs : MarkDone(h, output)
    \/ \E h \in Handles, error \in Errors : MarkFailed(h, error)
    \/ \E h \in Handles : MarkRunningQuery(h)
    \/ \E h \in Handles : MarkDoneQuery(h)
    \/ \E h \in Handles : MarkFailedQuery(h)
    \/ \E h \in Handles : QueryFails(h)
    \/ \E h \in Handles : Release(h)
    \/ FinishActiveRuns

SpecExit == Init /\ [][NextExit]_vars

\* one step and its vars bag.  The table outlives the process: it is empty,
\* or holds the row an earlier run of the step left FAILED, with vars never
\* written, written from a bag, or damaged since.
VarKeys == {"k"}
VarValues == {Num(1), Num(2)}

LeftRow(varsColumn) ==
    [InsertedRow(1, "a", "h", Str("root")) EXCEPT
        !.status = STATUS_FAILED,
        !.error = serializeError(Error("timeout")),
        !.vars = varsColumn,
        !.hostname = hostname,
        !.started_at = now]

Tables ==
    {{}} \cup {{LeftRow(varsColumn)} :
                 varsColumn \in {Null, JSONstringify(Put(EmptyBag, "k", Num(1))), Str("{oops")}}

InitVars == \E rows \in Tables : InitOn(rows)

NextVars ==
    \/ \E h \in Handles, rootHash \in {Undefined, Str("root")} :
          GetRun(h, "a", "h", rootHash)
    \/ \E h \in Handles : Connect(h)
    \/ \E h \in Handles : GetRunSelect(h)
    \/ \E h \in Handles : GetRunInsert(h)
    \/ \E h \in Handles : GetRunRelease(h)
    \/ \E h \in Handles : GetVars(h)
    \/ \E h \in Handles, key \in VarKeys, value \in VarValues : SetVar(h, key, value)
    \/ \E h \in Handles : MarkRunning(h)
    \/ \E h \in Handles : MarkDone(h, Obj(<<<<"pages", Num(3)>>>>))
    \/ \E h \in Handles : MarkFailed(h, Error("timeout"))
    \/ \E h \in Handles : MarkRunningQuery(h)
    \/ \E h \in Handles : MarkDoneQuery(h)
    \/ \E h \in Handles : MarkFailedQuery(h)
    \/ \E h \in Handles : QueryFails(h)
    \/ \E h \in Handles : Release(h)

SpecVars == InitVars /\ [][NextVars]_vars

TypeOK ==
    /\ nextId \in 1..(MaxHandles + 1)
    /\ checkedOut \in 0..PoolMax
    /\ \A h \in Handles :
          pc[h] \in {"free", "connect", "select", "insert", "query", "release", "ready", "failed"}

(***************************************************************************)
(* Vocabulary of the properties.                                           *)
(***************************************************************************)
RowsOf(name, hash) == {r \in store : r.name = name /\ r.hash = hash}
SameKey(h1, h2) == args[h1].name = args[h2].name /\ args[h1].hash = args[h2].hash
GetRunInFlight(h) == op[h] = "getRun" /\ pc[h] \in {"connect", "select", "insert", "release"}
GetRunFinished(h) == pc[h] # "free" /\ ~GetRunInFlight(h)
Succeeded(h) == pc[h] = "ready" /\ result[h].t = "number" /\ result[h].v > 0
StepOf(h) == pc'[h] # pc[h] \/ op'[h] # op[h] \/ result'[h] # result[h]

(***************************************************************************)
(* C1: two successive getRun calls with a defined rootHash (null           *)
(* included), the second begun after the first resolved, both resolve to   *)
(* a row of the same id, and the store then holds exactly one row for      *)
(* (name, hash).                                                           *)
(***************************************************************************)
C1_SuccessiveGetRunSameId ==
    \A h1, h2 \in Handles :
        ( /\ h1 \in prior[h2]
          /\ GetRunResolved(h2)
          /\ args[h1].rootHash # Undefined
          /\ args[h2].rootHash # Undefined )
        => /\ row[h1] # Undefined
           /\ row[h2] # Undefined
           /\ row[h1].id = row[h2].id
           /\ Cardinality(RowsOf(args[h2].name, args[h2].hash)) = 1

(***************************************************************************)
(* C2: getRun(name, hash, null) on a store without a row for (name, hash)  *)
(* creates one: once it has resolved, the run object is bound to a row     *)
(* created with status NEW and rootHash null, and the store holds it.      *)
(***************************************************************************)
C2_NullRootHashCreates ==
    \A h \in Handles :
        (GetRunResolved(h) /\ args[h].rootHash = Null /\ missed[h])
        => /\ row[h] # Undefined
           /\ row[h].status = STATUS_NEW
           /\ row[h].rootHash = Null
           /\ \E r \in RowsOf(args[h].name, args[h].hash) :
                 r.id = row[h].id /\ r.rootHash = Null

(***************************************************************************)
(* C3: no step of a getRun call whose rootHash is undefined changes the    *)
(* store: the set of rows, every column of every row and the id sequence   *)
(* are the same after the step as before it.                               *)
(***************************************************************************)
C3_ReadOnlyGetRunNeverWrites ==
    [][\A h \in Handles :
          ( /\ StepOf(h)
            /\ op'[h] = "getRun"
            /\ args'[h].rootHash = Undefined )
          => store' = store /\ nextId' = nextId]_vars

C3_Witness ==
    \E h \in Handles :
        /\ pc[h] = "ready" /\ op[h] = "getRun"
        /\ args[h].rootHash = Undefined
        /\ missed[h] /\ row[h] = Undefined
        /\ RowsOf(args[h].name, args[h].hash) = {}

(***************************************************************************)
(* C4: a transition called on a run object opened read-only (rootHash      *)
(* undefined) or bound to no row returns false at once: no update is       *)
(* issued (the call is not left in flight, no connection is taken), and    *)
(* the store and the registry stay as they were.                           *)
(***************************************************************************)
ReadOnlyOrUnbound(h) == args[h].rootHash = Undefined \/ row[h] = Undefined

TransitionCall(h) ==
    \/ MarkRunning(h)
    \/ \E output \in Outputs : MarkDone(h, output)
    \/ \E error \in Errors : MarkFailed(h, error)

C4_ReadOnlyTransitionsAreNoOps ==
    [][\A h \in Handles :
          (TransitionCall(h) /\ ReadOnlyOrUnbound(h))
          => /\ result'[h] = False
             /\ pc'[h] = "ready"
             /\ store' = store
             /\ activeRuns' = activeRuns
             /\ checkedOut' = checkedOut]_vars

C4_Witness ==
    \E h \in Handles :
        /\ pc[h] = "ready" /\ op[h] \in Transitions /\ result[h] = False
        /\ args[h].rootHash = Undefined /\ row[h] # Undefined
        /\ row[h] \in store

(***************************************************************************)
(* C5: two getRun calls with a provided rootHash for one (name, hash)      *)
(* that both selected before either inserted both complete successfully,   *)
(* bound to the same row id, and the store holds exactly one row for       *)
(* (name, hash).                                                           *)
(***************************************************************************)
RacedToCreate(h) == args[h].rootHash.t = "string" /\ missed[h] /\ GetRunFinished(h)

C5_RacingGetRunsBothSucceed ==
    \A h1, h2 \in Handles :
        (h1 # h2 /\ SameKey(h1, h2) /\ RacedToCreate(h1) /\ RacedToCreate(h2))
        => /\ pc[h1] # "failed" /\ pc[h2] # "failed"
           /\ row[h1] # Undefined /\ row[h2] # Undefined
           /\ row[h1].id = row[h2].id
           /\ Cardinality(RowsOf(args[h1].name, args[h1].hash)) = 1

(***************************************************************************)
(* C6: on a writable run object bound to a row, the statement of each      *)
(* operation leaves the row persisted as the transition says: created      *)
(* with status NEW; RUNNING after markRunning; DONE with output set to     *)
(* the (JSON-encoded) given output, null only when none is given, and      *)
(* error null after markDone; FAILED with error set and output null after  *)
(* markFailed.                                                             *)
(***************************************************************************)
Persisted(rows, h) == CHOOSE r \in rows : r.id = row[h].id
Given(x) == x.t \notin {"undefined", "null"}

C6_TransitionsPersistTheirState ==
    [][\A h \in Handles :
          /\ (GetRunInsert(h) /\ pc'[h] = "release")
             => \E r \in store' : r.id = row'[h].id /\ r.status = STATUS_NEW
          /\ (MarkRunningQuery(h) /\ result'[h].t = "number")
             => Persisted(store', h).status = STATUS_RUNNING
          /\ (MarkDoneQuery(h) /\ result'[h].t = "number")
             => /\ Persisted(store', h).status = STATUS_DONE
                /\ Persisted(store', h).error = Null
                /\ Persisted(store', h).output =
                      (IF Given(arg[h]) THEN JSONstringify(arg[h]) ELSE Null)
          /\ (MarkFailedQuery(h) /\ result'[h].t = "number")
             => /\ Persisted(store', h).status = STATUS_FAILED
                /\ Persisted(store', h).error # Null
                /\ Persisted(store', h).output = Null]_vars

(***************************************************************************)
(* C7: the persisted status of a row changes only along NEW->RUNNING,      *)
(* RUNNING->DONE, RUNNING->FAILED, FAILED->RUNNING and DONE->RUNNING.      *)
(***************************************************************************)
StatusChanges ==
    {<<r1.status, r2.status>> :
        <<r1, r2>> \in {p \in store \X store' : p[1].id = p[2].id /\ p[1].status # p[2].status}}

C7_StatusFollowsStateMachine ==
    [][StatusChanges \subseteq
          {<<STATUS_NEW, STATUS_RUNNING>>, <<STATUS_RUNNING, STATUS_DONE>>,
           <<STATUS_RUNNING, STATUS_FAILED>>, <<STATUS_FAILED, STATUS_RUNNING>>,
           <<STATUS_DONE, STATUS_RUNNING>>}]_vars

(***************************************************************************)
(* C7, amended: a transition does not look at the status it leaves, so a   *)
(* row also moves NEW->DONE, NEW->FAILED, DONE->FAILED and FAILED->DONE;    *)
(* what holds is that the status changes only to the target of the         *)
(* transition whose update is executed (RUNNING, DONE or FAILED), on the   *)
(* row of that run object, and never back to NEW.                          *)
(***************************************************************************)
Target(name) ==
    CASE name = "markRunning" -> STATUS_RUNNING
      [] name = "markDone" -> STATUS_DONE
      [] name = "markFailed" -> STATUS_FAILED

C7_StatusChangesToTransitionTarget ==
    [][\A r1 \in store, r2 \in store' :
          (r1.id = r2.id /\ r1.status # r2.status)
          => \E h \in Handles :
                /\ pc[h] = "query" /\ pc'[h] = "release"
                /\ op[h] \in Transitions
                /\ row[h].id = r1.id
                /\ r2.status = Target(op[h])]_vars

C7_Witness ==
    \E r \in store : r.status = STATUS_DONE /\ r.started_at = Null

(***************************************************************************)
(* C8: no row of the store has both a non-null output and a non-null       *)
(* error.                                                                  *)
(***************************************************************************)
C8_OutputErrorExclusive ==
    \A r \in store : r.output = Null \/ r.error = Null

C8_Witness ==
    \E r \in store, h \in Handles :
        /\ r.status = STATUS_DONE /\ r.output # Null
        /\ Succeeded(h) /\ op[h] = "markFailed" /\ row[h].id = r.id

(***************************************************************************)
(* C9: a non-null persisted output implies status DONE.                    *)
(***************************************************************************)
C9_OutputOnlyWhileDone ==
    \A r \in store : r.output # Null => r.status = STATUS_DONE

(***************************************************************************)
(* C9, amended: markFailed clears output, markRunning leaves it; a         *)
(* non-null persisted output implies status DONE, or RUNNING for a row     *)
(* that markRunning re-entered after DONE.  A FAILED or NEW row has no     *)
(* output.                                                                 *)
(***************************************************************************)
C9_OutputOnlyWhileDoneOrRerun ==
    \A r \in store : r.output # Null => r.status \in {STATUS_DONE, STATUS_RUNNING}

C9_Witness ==
    \E r \in store : r.output # Null /\ r.status = STATUS_RUNNING

(***************************************************************************)
(* C10: after markRunning succeeded on a run object, its isRunning() is    *)
(* true; after markDone succeeded, isDone() is true and isRunning()        *)
(* false; after markFailed succeeded, isFailed() is true and isRunning()   *)
(* false.                                                                  *)
(***************************************************************************)
C10_PredicatesFollowOwnTransitions ==
    \A h \in Handles :
        Succeeded(h) =>
            /\ op[h] = "markRunning" => isRunning(h) = Bool(TRUE)
            /\ op[h] = "markDone" => isDone(h) = Bool(TRUE) /\ isRunning(h) = Bool(FALSE)
            /\ op[h] = "markFailed" => isFailed(h) = Bool(TRUE) /\ isRunning(h) = Bool(FALSE)

(***************************************************************************)
(* C16: every connection a writable operation takes from the pool is       *)
(* released by the time the operation completes, whether its statement     *)
(* succeeds or fails: when no operation is in flight, no connection is     *)
(* checked out.                                                            *)
(***************************************************************************)
InFlight(h) == pc[h] \in {"connect", "select", "insert", "query", "release"}

C16_NoConnectionHeldWhenIdle ==
    (\A h \in Handles : ~InFlight(h)) => checkedOut = 0

(***************************************************************************)
(* C17: when no transition call is in flight, a run object is held in the  *)
(* registry exactly when the most recent transition call made through it   *)
(* was a markRunning that persisted RUNNING.                               *)
(***************************************************************************)
Held(h) == \E hash \in DOMAIN activeRuns : activeRuns[hash] = h

C17_RegistryTracksRunning ==
    (\A h \in Handles : op[h] \in Transitions => pc[h] = "ready")
    => \A h \in Handles :
          Held(h) <=> (op[h] = "markRunning" /\ Succeeded(h))

(***************************************************************************)
(* C20: on the run object of a read-only getRun that found no row,         *)
(* isDone(), isRunning() and isFailed() return false and getOutput()       *)
(* returns an absent value; none of them throws.                           *)
(***************************************************************************)
C20_PredicatesTotalOnUnresolved ==
    \A h \in Handles :
        (pc[h] = "ready" /\ args[h].rootHash = Undefined /\ row[h] = Undefined)
        => /\ isDone(h) = Bool(FALSE)
           /\ isRunning(h) = Bool(FALSE)
           /\ isFailed(h) = Bool(FALSE)
           /\ getOutput(h) \in {Undefined, Null}

(***************************************************************************)
(* C11: when the last transition executed on a row is a markDone(o), a     *)
(* getRun that then reads the row returns a run object with isDone()       *)
(* true, isRunning() and isFailed() false, and getOutput() equal to the    *)
(* value o itself (an absent value when no output was given).              *)
(***************************************************************************)
C11_GetOutputReturnsGivenValue ==
    [][\A h \in Handles :
          ( /\ GetRunSelect(h)
            /\ row'[h] # Undefined
            /\ doneWith[row'[h].id] # NotDone )
          => /\ isDone(h)' = Bool(TRUE)
             /\ isRunning(h)' = Bool(FALSE)
             /\ isFailed(h)' = Bool(FALSE)
             /\ IF Given(doneWith[row'[h].id])
                THEN getOutput(h)' = doneWith[row'[h].id]
                ELSE getOutput(h)' \in {Undefined, Null}]_vars

(***************************************************************************)
(* C12: once finishActiveRuns has run to completion (every markFailed it   *)
(* awaits has resolved), the row of every run object that was registered   *)
(* when it began is persisted as FAILED and the registry is empty.         *)
(***************************************************************************)
HookCompleted == exiting /\ \A h \in Handles : ~InFlight(h)
HookResolved == HookCompleted /\ \A h \in finish : ~IsRejected(result[h])

C12_ShutdownFailsRegisteredRuns ==
    HookResolved
    => /\ \A h \in finish :
             \E r \in store : r.id = row[h].id /\ r.status = STATUS_FAILED
       /\ \A hash \in DOMAIN activeRuns : activeRuns[hash] = NoRun

C12_Witness ==
    /\ HookResolved
    /\ Cardinality(finish) = 2
    /\ \A h \in finish :
          \E r \in store :
             r.id = row[h].id /\ r.status = STATUS_FAILED /\ r.started_at # Null

(***************************************************************************)
(* C13: after any sequence of getRun / markRunning / markDone /            *)
(* markFailed calls, once the shutdown hook has run to completion with     *)
(* every markFailed it awaits resolved, no row is persisted as RUNNING     *)
(* (every row of the table was created, and moved, by this process).       *)
(***************************************************************************)
C13_NoRunLeftRunningAfterShutdown ==
    HookResolved => \A r \in store : r.status # STATUS_RUNNING

(***************************************************************************)
(* C14: when a transition's UPDATE succeeds on a run object whose bag was  *)
(* obtained from getVars() (and possibly written through since), the vars  *)
(* it persists decode, by the getVars() of a run object that loads them,   *)
(* to that same bag: every key set maps to the value set.                  *)
(***************************************************************************)
TransitionQuery(h) == MarkRunningQuery(h) \/ MarkDoneQuery(h) \/ MarkFailedQuery(h)
Bag(key, value) == Put(EmptyBag, key, value)

C14_VarsRoundTrip ==
    [][\A h \in Handles :
          (TransitionQuery(h) /\ result'[h].t = "number" /\ got[h].t = "object")
          => /\ row[h].vars = got[h]
             /\ DecodedVars(Persisted(store', h).vars) = got[h]]_vars

C14_Witness ==
    \E h1 \in Handles, h2 \in Handles :
       /\ h1 # h2
       /\ Succeeded(h1) /\ op[h1] \in Transitions
       /\ got[h1] = Bag("k", Num(2))
       /\ h1 \in prior[h2]
       /\ op[h2] = "getRun" /\ pc[h2] = "ready"
       /\ row[h2] # Undefined /\ row[h2].id = row[h1].id
       /\ Persisted(store, h1).vars = JSONstringify(Bag("k", Num(2)))
       /\ got[h2] = Bag("k", Num(2))

(***************************************************************************)
(* C15: getVars() on a run object whose row's stored vars are missing      *)
(* (null) or corrupt (a text that is no JSON) returns the empty bag, and   *)
(* the run object's vars become the empty bag.                             *)
(***************************************************************************)
Corrupt(x) == x.t = "string" /\ "json" \notin DOMAIN x

C15_GetVarsRecoversBadVars ==
    [][\A h \in Handles :
          ( /\ GetVars(h)
            /\ row[h] # Undefined
            /\ (~Given(row[h].vars) \/ Corrupt(row[h].vars)) )
          => /\ got'[h] = EmptyBag
             /\ row'[h].vars = EmptyBag]_vars

(***************************************************************************)
(* C18: a getVars() call on a run object whose bag an earlier getVars()    *)
(* call returned gives that same bag, with what was written through it.    *)
(***************************************************************************)
C18_GetVarsStable ==
    [][\A h \in Handles :
          (GetVars(h) /\ got[h].t = "object")
          => /\ got'[h] = got[h]
             /\ row'[h].vars = got[h]]_vars

(***************************************************************************)
(* C19: when a transition's UPDATE succeeds on a run object on which       *)
(* getVars() was never called, and which was resolved for a row whose      *)
(* persisted vars decode to a non-empty bag, the persisted vars decode to  *)
(* the same bag after the UPDATE as before it.                             *)
(***************************************************************************)
NonEmptyBag(x) == x.t = "object" /\ Len(x.v) > 0

C19_TransitionKeepsUntouchedVars ==
    [][\A h \in Handles :
          ( /\ TransitionQuery(h) /\ result'[h].t = "number"
            /\ got[h] = Undefined
            /\ row[h].vars = Persisted(store, h).vars
            /\ NonEmptyBag(DecodedVars(Persisted(store, h).vars)) )
          => DecodedVars(Persisted(store', h).vars)
                = DecodedVars(Persisted(store, h).vars)]_vars

====
